---- MODULE Spec2Model ----
(***************************************************************************)
(* A model of package_llvm.py: the script that downloads the LLVM sources, *)
(* builds llvm-tblgen/clang-tblgen and then LLVM, inspects the binaries,   *)
(* bundles the install tree and uploads the bundle to a GitHub release.    *)
(*                                                                         *)
(* The script is one sequential process.  Main is modelled step by step    *)
(* (specification Spec); the functions whose inner logic matters are       *)
(* modelled on their own inputs: Retries (SpecRetries), UploadLlvm         *)
(* (SpecUpload), CheckLlvm (SpecCheck) and BundleLlvm (SpecBundle).        *)
(* Text is kept as text: versions, URLs, file names and objdump lines are  *)
(* strings, cut and parsed the way the script cuts and parses them.        *)
(***************************************************************************)
EXTENDS Integers, Sequences, FiniteSets, TLC

VARIABLES
  pc,              \* position of the running function
  trace,           \* what the process did to the outside world, in order
  system,          \* platform.system()
  args,            \* the argparse namespace
  argv,            \* args as parse_args() returned it, line 421
  environ,         \* names present in os.environ
  fs,              \* paths that exist under <base-dir>/<target>/
  fs0,             \* fs as it was when the run started
  llvm_url,        \* Main: llvm_url
  bundle_version,  \* Main / UploadLlvm: bundle_version
  function,        \* Retries: outcome of each successive call of function
  nb_retries,      \* Retries: nb_retries
  releases,        \* UploadLlvm: the releases the hosting service lists
  idx,             \* UploadLlvm / CheckLlvm / BundleLlvm: loop position
  upload_url,      \* UploadLlvm: upload_url ("" is None)
  output,          \* CheckLlvm: objdump's lines for libclang.so and clangd
  versions,        \* CheckLlvm: library -> versions, in insertion order
  dependencies,    \* CheckDependencies: the NEEDED names it printed
  report,          \* CheckLlvm: the "Minimum versions required" lines
  tree,            \* BundleLlvm: files of the install tree, in walk order
  tar_file,        \* BundleLlvm: arcnames added to the archive
  chmod            \* BundleLlvm: the last os.chmod, the mode found and the mode set

vars == << pc, trace, system, args, argv, environ, fs, fs0, llvm_url, bundle_version,
           function, nb_retries, releases, idx, upload_url, output, versions,
           dependencies, report, tree, tar_file, chmod >>

mainVars    == << system, args, argv, environ, fs, fs0, llvm_url, bundle_version >>
retriesVars == << function, nb_retries >>
uploadVars  == << releases, upload_url >>
checkVars   == << output, versions, dependencies, report >>
bundleVars  == << tree, tar_file, chmod >>

(***************************************************************************)
(* Bounds of the model.                                                    *)
(***************************************************************************)
MaxCalls    == 5   \* calls of function whose outcome is drawn
MaxRC       == 1   \* largest --release-candidate drawn
MaxReleases == 2   \* releases in the listing
MaxLines    == 2   \* objdump lines per binary
MaxFiles    == 2   \* files in the install tree

(***************************************************************************)
(* Program constants.                                                      *)
(***************************************************************************)
RETRY_INTERVAL == 10
max_retries    == 3

(***************************************************************************)
(* Text helpers (Python str methods used by the script).                   *)
(***************************************************************************)
Char(s, i) == SubSeq(s, i, i)

StartsWith(s, p) == Len(s) >= Len(p) /\ SubSeq(s, 1, Len(p)) = p

EndsWith(s, p) == Len(s) >= Len(p) /\ SubSeq(s, Len(s) - Len(p) + 1, Len(s)) = p

Last(s) == s[Len(s)]

(* positions of the character c in s *)
Positions(s, c) == { i \in 1..Len(s) : Char(s, i) = c }

SetMax(S) == CHOOSE m \in S : \A n \in S : n <= m

SetMin(S) == CHOOSE m \in S : \A n \in S : m <= n

(* s.split( c ) *)
RECURSIVE Split(_, _)
Split(s, c) ==
  IF Positions(s, c) = {} THEN << s >>
  ELSE LET p == SetMin(Positions(s, c))
       IN  << SubSeq(s, 1, p - 1) >> \o Split(SubSeq(s, p + 1, Len(s)), c)

IsDigit(c) == c \in { "0", "1", "2", "3", "4", "5", "6", "7", "8", "9" }

DigitValue(c) ==
  CASE c = "0" -> 0 [] c = "1" -> 1 [] c = "2" -> 2 [] c = "3" -> 3
    [] c = "4" -> 4 [] c = "5" -> 5 [] c = "6" -> 6 [] c = "7" -> 7
    [] c = "8" -> 8 [] c = "9" -> 9

(* int( s ) for a string of decimal digits *)
RECURSIVE ParseInt(_)
ParseInt(s) ==
  IF Len(s) = 0 THEN 0
  ELSE 10 * ParseInt(SubSeq(s, 1, Len(s) - 1)) + DigitValue(Char(s, Len(s)))

(* the events of a trace whose first field is in kinds *)
Events(t, kinds) == SelectSeq(t, LAMBDA e : e[1] \in kinds)

(***************************************************************************)
(* Retries( function, *args ), lines 116-130.                              *)
(* function[ k ] is what the k-th call of function does: it returns        *)
(* ("ok"), raises SystemExit, or raises another exception.                 *)
(***************************************************************************)
Outcomes == { "ok", "SystemExit", "Exception" }

Calls(t) == Len(Events(t, { "call" }))

Sleeps(t) == Events(t, { "sleep" })

(* a retry loop that gives up one failure early *)
RetriesBudgetSpentEarly(n) == n >= max_retries

(* line 125 *)
RetriesBudgetSpent(n) == n > max_retries

(* one pass through the while loop: the call, and what follows it *)
RetriesAttempt ==
  /\ pc = "Retries"
  /\ Calls(trace) < MaxCalls
  /\ LET k       == Calls(trace) + 1
         called  == Append(trace, << "call", k >>)
     IN  CASE function[k] = "ok" ->
                /\ pc' = "returned"
                /\ trace' = called
                /\ UNCHANGED nb_retries
           [] function[k] = "Exception" ->
                /\ pc' = "raised"
                /\ trace' = called
                /\ UNCHANGED nb_retries
           [] function[k] = "SystemExit" ->
                /\ nb_retries' = nb_retries + 1
                /\ IF RetriesBudgetSpent(nb_retries + 1)
                     THEN /\ pc' = "aborted"
                          /\ trace' = called
                     ELSE /\ pc' = "Retries"
                          /\ trace' = Append(called, << "sleep", RETRY_INTERVAL >>)
  /\ UNCHANGED << function, idx, mainVars, uploadVars, checkVars, bundleVars >>

(***************************************************************************)
(* ENV_DATA, lines 42-72, and the version / URL helpers, lines 151-169.    *)
(***************************************************************************)
ENV_DATA ==
  [ Linux |->
      [ x86_64  |-> [ host    |-> "x86_64-unknown-linux-gnu",
                      target  |-> "x86_64-unknown-linux-gnu",
                      archive |-> "x86_64-unknown-linux-gnu" ],
        arm     |-> [ host    |-> "x86_64-unknown-linux-gnu",
                      target  |-> "arm-linux-gnueabihf",
                      archive |-> "armv7a-linux-gnueabihf" ],
        aarch64 |-> [ host    |-> "x86_64-unknown-linux-gnu",
                      target  |-> "aarch64-linux-gnu",
                      archive |-> "aarch64-linux-gnu" ] ],
    Darwin |->
      [ x86_64  |-> [ host    |-> "x86_64-apple-darwin",
                      target  |-> "x86_64-apple-darwin",
                      archive |-> "x86_64-apple-darwin" ],
        arm64   |-> [ host    |-> "x86_64-apple-darwin",
                      target  |-> "arm64-apple-darwin",
                      archive |-> "arm64-apple-darwin" ] ] ]

(* whether ENV_DATA[ sys ][ arch ] is there; a lookup that is not raises KeyError *)
Supported(sys, arch) == arch \in DOMAIN ENV_DATA[sys]

LLVM_RELEASE_URL(version) ==
  "https://github.com/llvm/llvm-project/releases/download/llvmorg-" \o version

LLVM_PRERELEASE_URL(version, release_candidate) ==
  "https://github.com/llvm/llvm-project/releases/download/llvmorg-"
    \o version \o "-rc" \o ToString(release_candidate)

LLVM_SOURCE(version) == "llvm-project-" \o version \o ".src"

BUNDLE_NAME(version, target) == "clang+llvm-" \o version \o "-" \o target

(* --release-candidate: << >> is None (the flag was not given), << n >> is n *)
None == << >>

(* Python's truth value of args.release_candidate *)
Truthy(rc) == rc # None /\ rc[1] # 0

GetLlvmBaseUrl(a) ==
  IF Truthy(a.release_candidate)
    THEN LLVM_PRERELEASE_URL(a.version, a.release_candidate[1])
    ELSE LLVM_RELEASE_URL(a.version)

GetLlvmVersion(a) ==
  IF Truthy(a.release_candidate)
    THEN a.version \o "rc" \o ToString(a.release_candidate[1])
    ELSE a.version

GetBundleVersion(a) ==
  IF Truthy(a.release_candidate)
    THEN a.version \o "-rc" \o ToString(a.release_candidate[1])
    ELSE a.version

(***************************************************************************)
(* Main, lines 439-488.  Paths are relative to base_dir; "." is base_dir.  *)
(* A trace event is << kind, stage, detail >>.  The kinds in Work are what *)
(* the process does outside itself; "ok", "skip" and "raise" mark a stage  *)
(* returning, being skipped, or raising.                                   *)
(***************************************************************************)
Work == { "mkdir", "download", "extract", "cmake", "objdump", "tar", "api" }

Stages == << "fetch", "tblgen", "llvm", "inspect", "bundle", "upload" >>

StageIndex(s) == CHOOSE i \in 1..Len(Stages) : Stages[i] = s

Terminal == { "done", "SystemExit", "KeyError", "Exception" }

LlvmSourceDir(a) == LLVM_SOURCE(GetLlvmVersion(a))

SourceArchive(a) == LlvmSourceDir(a) \o ".tar.xz"

ArchiveName(sys, a) ==
  BUNDLE_NAME(GetBundleVersion(a),
              ENV_DATA[sys][a.target_architecture].archive) \o ".tar.xz"

(* a credential check that lets everything through *)
CredentialUnchecked(flag, name, env) == FALSE

(* ParseArguments, lines 423-434: a credential is missing when neither the *)
(* flag nor the environment variable gives it                              *)
CredentialMissing(flag, name, env) == flag = "" /\ name \notin env

FromEnviron(name) == "$" \o name

ParseArguments ==
  /\ pc = "Main"
  /\ IF args.no_upload
       THEN /\ pc' = "base_dir"
            /\ UNCHANGED << args, trace >>
       ELSE LET user  == IF args.gh_user = ""
                           THEN FromEnviron("GITHUB_USERNAME") ELSE args.gh_user
                token == IF args.gh_token = ""
                           THEN FromEnviron("GITHUB_TOKEN") ELSE args.gh_token
            IN  IF CredentialMissing(args.gh_user, "GITHUB_USERNAME", environ)
                  THEN /\ pc' = "SystemExit"
                       /\ trace' = Append(trace, << "raise", "args", "GITHUB_USERNAME" >>)
                       /\ UNCHANGED args
                  ELSE IF CredentialMissing(args.gh_token, "GITHUB_TOKEN", environ)
                         THEN /\ pc' = "SystemExit"
                              /\ trace' = Append(trace, << "raise", "args", "GITHUB_TOKEN" >>)
                              /\ args' = [args EXCEPT !.gh_user = user]
                         ELSE /\ pc' = "base_dir"
                              /\ args' = [args EXCEPT !.gh_user = user,
                                                      !.gh_token = token]
                              /\ UNCHANGED trace
  /\ UNCHANGED << system, argv, environ, fs, fs0, llvm_url, bundle_version, idx,
                  retriesVars, uploadVars, checkVars, bundleVars >>

(* lines 441-450: the ENV_DATA lookup, base_dir, and the source's names *)
MakeBaseDir ==
  /\ pc = "base_dir"
  /\ IF ~Supported(system, args.target_architecture)
       THEN /\ pc' = "KeyError"
            /\ trace' = Append(trace, << "raise", "args", args.target_architecture >>)
            /\ UNCHANGED << fs, llvm_url >>
       ELSE /\ pc' = "fetch"
            /\ llvm_url' = GetLlvmBaseUrl(args)
            /\ IF "." \in fs
                 THEN UNCHANGED << fs, trace >>
                 ELSE /\ fs' = fs \cup { "." }
                      /\ trace' = Append(trace, << "mkdir", "setup", "." >>)
  /\ UNCHANGED << system, args, argv, environ, fs0, bundle_version, idx,
                  retriesVars, uploadVars, checkVars, bundleVars >>

(* a gate that never finds the output *)
ExistsNever(path, files) == FALSE

(* the gate of a stage: its output is already there *)
Exists(path, files) == path \in files

(* lines 452-454 with DownloadSource, lines 172-179 *)
FetchSource ==
  /\ pc = "fetch"
  /\ LET source  == LlvmSourceDir(args)
         archive == SourceArchive(args)
         get     == IF Exists(archive, fs) THEN << >>
                    ELSE << << "download", "fetch", llvm_url \o "/" \o archive >> >>
         extract == << "extract", "fetch", archive >>
     IN  IF Exists(source, fs)
           THEN /\ pc' = "dirs"
                /\ trace' = Append(trace, << "skip", "fetch", source >>)
                /\ UNCHANGED fs
           ELSE \E outcome \in { "ok", "download fails", "extract fails" },
                   partial \in BOOLEAN :
                  CASE outcome = "download fails" ->
                         /\ ~Exists(archive, fs)
                         /\ pc' = "Exception"
                         /\ trace' = trace \o get \o << << "raise", "fetch", "Download" >> >>
                         /\ fs' = IF partial THEN fs \cup { archive } ELSE fs
                    [] outcome = "extract fails" ->
                         /\ pc' = "Exception"
                         /\ trace' = trace \o get
                                       \o << extract, << "raise", "fetch", "Extract" >> >>
                         /\ fs' = fs \cup { archive }
                                     \cup (IF partial THEN { source } ELSE { })
                    [] outcome = "ok" ->
                         /\ ~partial
                         /\ pc' = "dirs"
                         /\ trace' = trace \o get
                                       \o << extract, << "ok", "fetch", source >> >>
                         /\ fs' = fs \cup { archive, source }
  /\ UNCHANGED << system, args, argv, environ, fs0, llvm_url, bundle_version, idx,
                  retriesVars, uploadVars, checkVars, bundleVars >>

BuildDirs == << "tblgen_build", "llvm_build", "llvm_install" >>

(* the os.mkdir calls for the directories of dirs that files lacks *)
RECURSIVE Mkdirs(_, _)
Mkdirs(dirs, files) ==
  IF dirs = << >> THEN << >>
  ELSE (IF Exists(Head(dirs), files) THEN << >>
        ELSE << << "mkdir", "setup", Head(dirs) >> >>)
       \o Mkdirs(Tail(dirs), files)

(* lines 456-465 *)
MakeBuildDirs ==
  /\ pc = "dirs"
  /\ pc' = "tblgen"
  /\ trace' = trace \o Mkdirs(BuildDirs, fs)
  /\ fs' = fs \cup { BuildDirs[i] : i \in 1..Len(BuildDirs) }
  /\ UNCHANGED << system, args, argv, environ, fs0, llvm_url, bundle_version, idx,
                  retriesVars, uploadVars, checkVars, bundleVars >>

(* cmake's configure run and build run, either of which may fail *)
CMake(stage, next) ==
  \E outcome \in { "ok", "configure fails", "build fails" } :
    LET configure == << "cmake", stage, "configure" >>
        build     == << "cmake", stage, "build" >>
    IN  CASE outcome = "configure fails" ->
               /\ pc' = "Exception"
               /\ trace' = trace \o << configure, << "raise", stage, "configure" >> >>
          [] outcome = "build fails" ->
               /\ pc' = "Exception"
               /\ trace' = trace \o << configure, build, << "raise", stage, "build" >> >>
          [] outcome = "ok" ->
               /\ pc' = next
               /\ trace' = trace \o << configure, build, << "ok", stage, "built" >> >>

(* line 467 with BuildTableGen, lines 244-259 *)
BuildTableGen ==
  /\ pc = "tblgen"
  /\ CMake("tblgen", "llvm")
  /\ UNCHANGED << mainVars, idx, retriesVars, uploadVars, checkVars, bundleVars >>

(* lines 468-472 with BuildLlvm, lines 190-241 *)
BuildLlvm ==
  /\ pc = "llvm"
  /\ CMake("llvm", "inspect")
  /\ UNCHANGED << mainVars, idx, retriesVars, uploadVars, checkVars, bundleVars >>

(* an inspection that no longer looks at the platform *)
InspectAlways(sys) == TRUE

(* line 474 *)
InspectApplies(sys) == sys = "Linux"

(* lines 474-475: CheckLlvm runs objdump on libclang.so and on clangd *)
InspectBinaries ==
  /\ pc = "inspect"
  /\ IF ~InspectApplies(system)
       THEN /\ pc' = "bundle"
            /\ UNCHANGED trace
       ELSE \E outcome \in { "ok", "libclang fails", "clangd fails" } :
              LET libclang == << "objdump", "inspect", "lib/libclang.so" >>
                  clangd   == << "objdump", "inspect", "bin/clangd" >>
              IN  CASE outcome = "libclang fails" ->
                         /\ pc' = "Exception"
                         /\ trace' = trace \o << libclang,
                                                 << "raise", "inspect", "libclang" >> >>
                    [] outcome = "clangd fails" ->
                         /\ pc' = "Exception"
                         /\ trace' = trace \o << libclang, clangd,
                                                 << "raise", "inspect", "clangd" >> >>
                    [] outcome = "ok" ->
                         /\ pc' = "bundle"
                         /\ trace' = trace \o << libclang, clangd,
                                                 << "ok", "inspect", "checked" >> >>
  /\ UNCHANGED << mainVars, idx, retriesVars, uploadVars, checkVars, bundleVars >>

(* lines 477-485: tarfile.open( ..., 'w:xz' ) creates the archive at once, *)
(* so a bundling that fails leaves the file behind                         *)
Bundle ==
  /\ pc = "bundle"
  /\ bundle_version' = GetBundleVersion(args)
  /\ LET archive_name == ArchiveName(system, args)
         tar          == << "tar", "bundle", archive_name >>
     IN  IF Exists(archive_name, fs)
           THEN /\ pc' = "upload"
                /\ trace' = Append(trace, << "skip", "bundle", archive_name >>)
                /\ UNCHANGED fs
           ELSE /\ fs' = fs \cup { archive_name }
                /\ \E ok \in BOOLEAN :
                     IF ok
                       THEN /\ pc' = "upload"
                            /\ trace' = trace \o << tar, << "ok", "bundle", archive_name >> >>
                       ELSE /\ pc' = "Exception"
                            /\ trace' = trace \o << tar, << "raise", "bundle", "BundleLlvm" >> >>
  /\ UNCHANGED << system, args, argv, environ, fs0, llvm_url, idx,
                  retriesVars, uploadVars, checkVars, bundleVars >>

(* line 487 *)
UploadApplies(a) == ~a.no_upload

(* lines 487-488: UploadLlvm returns, or leaves through sys.exit; its calls *)
(* are the subject of SpecUpload                                           *)
Upload ==
  /\ pc = "upload"
  /\ IF ~UploadApplies(args)
       THEN /\ pc' = "done"
            /\ UNCHANGED trace
       ELSE LET api == << "api", "upload", ArchiveName(system, args) >>
            IN  \E ok \in BOOLEAN :
                  IF ok
                    THEN /\ pc' = "done"
                         /\ trace' = trace \o << api, << "ok", "upload", "uploaded" >> >>
                    ELSE /\ pc' = "SystemExit"
                         /\ trace' = trace \o << api, << "raise", "upload", "UploadLlvm" >> >>
  /\ UNCHANGED << mainVars, idx, retriesVars, uploadVars, checkVars, bundleVars >>

(***************************************************************************)
(* The parts of the state a specification does not use stay as they are    *)
(* here.                                                                   *)
(***************************************************************************)
NoArgs == [ version |-> "", release_candidate |-> None, no_upload |-> TRUE,
            gh_user |-> "", gh_token |-> "", gh_org |-> "ycm-core",
            target_architecture |-> "x86_64" ]

MainIdle ==
  /\ system = "Linux" /\ args = NoArgs /\ argv = NoArgs /\ environ = { }
  /\ fs = { } /\ fs0 = { } /\ llvm_url = "" /\ bundle_version = ""

RetriesIdle == function = << >> /\ nb_retries = 0

UploadIdle == releases = << >> /\ upload_url = ""

CheckIdle == output = << >> /\ versions = << >> /\ dependencies = << >> /\ report = << >>

BundleIdle == tree = << >> /\ tar_file = << >> /\ chmod = << >>

(***************************************************************************)
(* SpecRetries: Retries on every behaviour of function over MaxCalls calls.*)
(***************************************************************************)
InitRetries ==
  /\ pc = "Retries"
  /\ trace = << >>
  /\ idx = 0
  /\ function \in [1..MaxCalls -> Outcomes]
  /\ nb_retries = 0
  /\ MainIdle /\ UploadIdle /\ CheckIdle /\ BundleIdle

NextRetries == RetriesAttempt

SpecRetries == InitRetries /\ [][NextRetries]_vars

(***************************************************************************)
(* Spec: one run of Main, from the command line, the environment and the   *)
(* working directory it finds.                                             *)
(***************************************************************************)
Versions == { "17.0.1" }

ReleaseCandidates == { None } \cup { << n >> : n \in 0..MaxRC }

Systems == { "Linux", "Darwin" }

Architectures == { "x86_64", "aarch64", "arm64" }

ArgSets ==
  [ version : Versions, release_candidate : ReleaseCandidates,
    no_upload : BOOLEAN, gh_user : { "", "user" }, gh_token : { "", "token" },
    gh_org : { "ycm-core" }, target_architecture : Architectures ]

(* what a working directory left by earlier runs may hold *)
Leftovers(sys, a) ==
  IF ~Supported(sys, a.target_architecture) THEN { { } }
  ELSE { { } } \cup
       { { "." } \cup S :
           S \in SUBSET ({ LlvmSourceDir(a), SourceArchive(a), ArchiveName(sys, a) }
                           \cup { BuildDirs[i] : i \in 1..Len(BuildDirs) }) }

Init ==
  /\ pc = "Main"
  /\ trace = << >>
  /\ idx = 0
  /\ system \in Systems
  /\ args \in ArgSets
  /\ argv = args
  /\ environ \in SUBSET { "GITHUB_USERNAME", "GITHUB_TOKEN" }
  /\ fs \in Leftovers(system, args)
  /\ fs0 = fs
  /\ llvm_url = ""
  /\ bundle_version = ""
  /\ RetriesIdle /\ UploadIdle /\ CheckIdle /\ BundleIdle

Next ==
  \/ ParseArguments
  \/ MakeBaseDir
  \/ FetchSource
  \/ MakeBuildDirs
  \/ BuildTableGen
  \/ BuildLlvm
  \/ InspectBinaries
  \/ Bundle
  \/ Upload

Spec == Init /\ [][Next]_vars

(***************************************************************************)
(* Properties of Retries (SpecRetries).                                    *)
(***************************************************************************)

(* function raises SystemExit on each of its calls 1..n *)
FailsThrough(n) == \A j \in 1..n : function[j] = "SystemExit"

(* C1: Retries calls function until the first call that does not raise     *)
(* SystemExit or until the 4th failed call.  If call k <= 4 is the first   *)
(* success, Retries returns after exactly k calls; if calls 1..4 all fail  *)
(* it aborts after exactly 4 calls; it never makes a 5th call; and between *)
(* two consecutive calls there is exactly one sleep of 10 seconds, with no *)
(* sleep after the last call.                                              *)
C1_RetriesBudget ==
  LET n == Calls(trace)
  IN  /\ n <= 4
      /\ FailsThrough(IF pc = "Retries" THEN n ELSE n - 1)
      /\ pc = "Retries" => n < 4
      /\ pc = "returned" => function[n] = "ok"
      /\ pc = "raised" => function[n] = "Exception"
      /\ pc = "aborted" => n = 4 /\ FailsThrough(4)
      /\ \A k \in 1..4 :
           (FailsThrough(k - 1) /\ function[k] = "ok" /\ pc # "Retries")
             => (pc = "returned" /\ n = k)
      /\ (FailsThrough(4) /\ pc # "Retries") => (pc = "aborted" /\ n = 4)
      /\ \A i \in 1..Len(trace) :
           IF i % 2 = 1 THEN trace[i] = << "call", (i + 1) \div 2 >>
                        ELSE trace[i] = << "sleep", 10 >>
      /\ pc # "Retries" => Len(Sleeps(trace)) = n - 1

(* C1 witness: a function that always fails has been called 4 times and    *)
(* Retries has aborted.                                                    *)
C1_Witness == pc = "aborted" /\ Calls(trace) = 4 /\ Len(Sleeps(trace)) = 3

(***************************************************************************)
(* Properties of Main (Spec).                                              *)
(***************************************************************************)

(* the events of stage s in the trace, of the given kinds *)
StageEvents(s, kinds) == SelectSeq(trace, LAMBDA e : e[1] \in kinds /\ e[2] = s)

(* C2 (as claimed): a run that ends because a stage raised has seen that   *)
(* stage fail more than 3 times, i.e. the stage was retried until the      *)
(* budget of 3 retries was spent; one failure alone never ends the run.    *)
C2_StageFailureIsRetried ==
  \A i \in 1..Len(Stages) :
    (pc \in { "Exception", "SystemExit" } /\ StageEvents(Stages[i], { "raise" }) # << >>)
      => Len(StageEvents(Stages[i], { "raise" })) > 3

Due(s) ==
  CASE s = "inspect" -> system = "Linux"
    [] s = "upload"  -> ~args.no_upload
    [] OTHER         -> TRUE

(* C4: the stages run in the order fetch, tblgen, llvm, inspect, bundle,   *)
(* upload: when a stage does outside work, every earlier stage that is due *)
(* has returned or been skipped and nothing has raised; inspect works only *)
(* on Linux and upload only without --no-upload; a finished run has gone   *)
(* through every stage that is due.                                        *)
C4_StageOrder ==
  /\ \A j \in 1..Len(trace) :
       (trace[j][1] \in Work /\ trace[j][2] # "setup") =>
         /\ Due(trace[j][2])
         /\ \A i \in 1..(j - 1) : trace[i][1] # "raise"
         /\ \A k \in 1..(StageIndex(trace[j][2]) - 1) :
              Due(Stages[k]) =>
                \E i \in 1..(j - 1) :
                  trace[i][2] = Stages[k] /\ trace[i][1] \in { "ok", "skip" }
  /\ \A j \in 1..Len(trace) : trace[j][1] = "raise" => j = Len(trace)
  /\ pc = "done" =>
       \A k \in 1..Len(Stages) :
         Due(Stages[k]) => StageEvents(Stages[k], { "ok", "skip" }) # << >>

(* C4 witness: a finished run on Darwin that uploaded: no inspection, and  *)
(* the upload after the bundle.                                            *)
C4_Witness ==
  /\ pc = "done"
  /\ system = "Darwin"
  /\ StageEvents("upload", { "api" }) # << >>
  /\ StageEvents("bundle", { "tar" }) # << >>
  /\ StageEvents("inspect", Work) = << >>

(* C7 (as claimed): with a release candidate number N given, 0 included,   *)
(* the bundle version ends in "-rc<N>" and the download URL is the         *)
(* prerelease one; with none given, the release URL and the bare version.  *)
C7_ReleaseCandidateNaming ==
  LET rc == args.release_candidate
  IN  /\ llvm_url # "" =>
           llvm_url = IF rc # None
                        THEN LLVM_PRERELEASE_URL(args.version, rc[1])
                        ELSE LLVM_RELEASE_URL(args.version)
      /\ bundle_version # "" =>
           IF rc # None
             THEN EndsWith(bundle_version, "-rc" \o ToString(rc[1]))
             ELSE bundle_version = args.version

(* a credential that neither its flag nor its environment variable gives *)
MissingCredentials ==
  \/ argv.gh_user = "" /\ "GITHUB_USERNAME" \notin environ
  \/ argv.gh_token = "" /\ "GITHUB_TOKEN" \notin environ

ConfigurationError ==
  \/ argv.target_architecture \notin DOMAIN ENV_DATA[system]
  \/ ~argv.no_upload /\ MissingCredentials

(* C8: with an unsupported (platform, architecture) pair, or with          *)
(* credentials missing while uploading is on, the run ends in an error     *)
(* without having created a directory, downloaded, run a subprocess or     *)
(* called the API; with --no-upload missing credentials are no error.      *)
C8_ConfigurationErrorsAtStartup ==
  /\ ConfigurationError =>
       /\ Events(trace, Work) = << >>
       /\ fs = fs0
       /\ pc \in { "Main", "base_dir", "SystemExit", "KeyError" }
       /\ pc = "base_dir" => argv.target_architecture \notin DOMAIN ENV_DATA[system]
  /\ pc \in { "SystemExit", "KeyError" } /\ Events(trace, Work) = << >> => ConfigurationError
  /\ argv.no_upload => pc # "SystemExit"

(* C8 witness: the run has stopped on a missing token, after taking the    *)
(* user name from the environment, with the working directory untouched.   *)
C8_Witness ==
  /\ pc = "SystemExit"
  /\ ~argv.no_upload
  /\ argv.gh_token = "" /\ "GITHUB_TOKEN" \notin environ
  /\ argv.gh_user = "" /\ args.gh_user = FromEnviron("GITHUB_USERNAME")
  /\ trace = << << "raise", "args", "GITHUB_TOKEN" >> >>

(***************************************************************************)
(* UploadLlvm( args, bundle_path ), lines 315-390.                         *)
(* A release of the listing is [ tag_name, assets ], assets being the      *)
(* names of its assets; its upload_url and the ids of its assets follow    *)
(* from its place in the listing.  An API call is recorded as              *)
(* << "api", call, status, detail >>.                                      *)
(***************************************************************************)
GITHUB_RELEASES_URL(owner, repo) ==
  "https://api.github.com/repos/" \o owner \o "/" \o repo \o "/releases"

GITHUB_ASSETS_URL(owner, repo, asset_id) ==
  "https://api.github.com/repos/" \o owner \o "/" \o repo
    \o "/releases/assets/" \o asset_id

(* release[ 'upload_url' ] of the i-th release of the listing *)
ReleaseUploadUrl(i) ==
  "https://uploads.github.com/releases/" \o ToString(i) \o "/assets{?name,label}"

(* asset[ 'id' ] of the j-th asset of the i-th release *)
AssetId(i, j) == ToString(i) \o "0" \o ToString(j)

(* response.json()[ 'upload_url' ] of a release just created *)
CreatedUploadUrl == "https://uploads.github.com/releases/new/assets{?name,label}"

(* s.replace( old, '' ) *)
RECURSIVE Remove(_, _)
Remove(s, old) ==
  IF Len(s) < Len(old) THEN s
  ELSE IF StartsWith(s, old) THEN Remove(SubSeq(s, Len(old) + 1, Len(s)), old)
  ELSE Char(s, 1) \o Remove(SubSeq(s, 2, Len(s)), old)

(* a status check that takes any success status for the expected one *)
StatusOkAnySuccess(call, status) == status \in { 200, 201, 204 }

(* the status each call has to return, lines 320, 348, 370, 388 *)
StatusOk(call, status) ==
  CASE call = "list"   -> status = 200
    [] call = "delete" -> status = 204
    [] call = "create" -> status = 201
    [] call = "upload" -> status = 201

(* a loop over the releases that lost its tag test *)
TagMatchesAny(release, version) == TRUE

(* line 329 *)
TagMatches(release, version) == release.tag_name = version

(* lines 335-337: the first asset of the release named like the bundle, 0  *)
(* when there is none                                                      *)
AssetToDelete(release, bundle_name) ==
  LET found == { j \in 1..Len(release.assets) : release.assets[j] = bundle_name }
  IN  IF found = { } THEN 0 ELSE SetMin(found)

(* line 354 *)
NeedsRelease(url) == url = ""

Statuses == { 200, 201, 204, 404 }

(* where the loop over the releases goes after the release at i *)
AfterRelease(i) == IF i >= Len(releases) THEN "create" ELSE "releases"

(* lines 316-327 *)
UploadList ==
  /\ pc = "UploadLlvm"
  /\ \E status \in Statuses :
       LET call == << "api", "list", status,
                      GITHUB_RELEASES_URL(args.gh_org, "llvm") >>
       IN  IF ~StatusOk("list", status)
             THEN /\ pc' = "SystemExit"
                  /\ trace' = Append(trace, call)
                  /\ UNCHANGED << bundle_version, upload_url, idx >>
             ELSE /\ pc' = AfterRelease(0)
                  /\ trace' = Append(trace, call)
                  /\ bundle_version' = GetBundleVersion(args)
                  /\ upload_url' = ""
                  /\ idx' = 1
  /\ UNCHANGED << system, args, argv, environ, fs, fs0, llvm_url, releases,
                  retriesVars, checkVars, bundleVars >>

(* lines 328-352, one release of the listing *)
UploadRelease ==
  /\ pc = "releases"
  /\ LET release     == releases[idx]
         bundle_name == ArchiveName(system, args)
         j           == AssetToDelete(release, bundle_name)
     IN  IF ~TagMatches(release, bundle_version)
           THEN /\ pc' = AfterRelease(idx)
                /\ idx' = idx + 1
                /\ UNCHANGED << trace, upload_url >>
           ELSE /\ upload_url' = ReleaseUploadUrl(idx)
                /\ IF j = 0
                     THEN /\ pc' = AfterRelease(idx)
                          /\ idx' = idx + 1
                          /\ UNCHANGED trace
                     ELSE \E status \in Statuses :
                            /\ trace' = Append(trace,
                                 << "api", "delete", status,
                                    GITHUB_ASSETS_URL(args.gh_org, "llvm", AssetId(idx, j)) >>)
                            /\ IF ~StatusOk("delete", status)
                                 THEN pc' = "SystemExit" /\ UNCHANGED idx
                                 ELSE pc' = AfterRelease(idx) /\ idx' = idx + 1
  /\ UNCHANGED << system, args, argv, environ, fs, fs0, llvm_url, bundle_version,
                  releases, retriesVars, checkVars, bundleVars >>

(* lines 354-374 *)
UploadCreate ==
  /\ pc = "create"
  /\ IF ~NeedsRelease(upload_url)
       THEN /\ pc' = "asset"
            /\ UNCHANGED << trace, upload_url >>
       ELSE LET prerelease == args.release_candidate # None
                name == "LLVM and Clang " \o args.version \o
                          (IF Truthy(args.release_candidate)
                             THEN " RC" \o ToString(args.release_candidate[1])
                             ELSE "")
            IN  \E status \in Statuses :
                  /\ trace' = Append(trace,
                       << "api", "create", status,
                          [ tag_name |-> bundle_version, name |-> name,
                            prerelease |-> prerelease ] >>)
                  /\ IF ~StatusOk("create", status)
                       THEN pc' = "SystemExit" /\ UNCHANGED upload_url
                       ELSE pc' = "asset" /\ upload_url' = CreatedUploadUrl
  /\ UNCHANGED << system, args, argv, environ, fs, fs0, llvm_url, bundle_version,
                  releases, idx, retriesVars, checkVars, bundleVars >>

(* lines 376-390 *)
UploadAsset ==
  /\ pc = "asset"
  /\ upload_url' = Remove(upload_url, "{?name,label}")
  /\ \E status \in Statuses :
       /\ trace' = Append(trace,
            << "api", "upload", status,
               Remove(upload_url, "{?name,label}") \o "?name=" \o ArchiveName(system, args) >>)
       /\ pc' = IF ~StatusOk("upload", status) THEN "SystemExit" ELSE "done"
  /\ UNCHANGED << system, args, argv, environ, fs, fs0, llvm_url, bundle_version,
                  releases, idx, retriesVars, checkVars, bundleVars >>

(***************************************************************************)
(* SpecUpload: UploadLlvm against every listing of up to MaxReleases       *)
(* releases and every status the service may answer with.                  *)
(***************************************************************************)
UploadArgSets ==
  { a \in ArgSets : /\ ~a.no_upload /\ a.gh_user # "" /\ a.gh_token # ""
                    /\ a.target_architecture = "x86_64" }

(* tags and asset names the listing may show: those of the release and of  *)
(* the first release candidate of the version                              *)
ListedTags(a) ==
  { GetBundleVersion([a EXCEPT !.release_candidate = rc]) : rc \in { None, << 1 >> } }

ListedAssets(sys, a) ==
  { ArchiveName(sys, [a EXCEPT !.release_candidate = rc]) : rc \in { None, << 1 >> } }

(* the sequences over S of at most n elements, none repeated *)
Distinct(S, n) ==
  { q \in UNION { [1..k -> S] : k \in 0..n } :
      \A i, j \in 1..Len(q) : i # j => q[i] # q[j] }

Listings(sys, a) ==
  UNION { [1..k -> [ tag_name : ListedTags(a),
                     assets : Distinct(ListedAssets(sys, a), 2) ]] :
          k \in 0..MaxReleases }

InitUpload ==
  /\ pc = "UploadLlvm"
  /\ trace = << >>
  /\ idx = 0
  /\ system = "Linux"
  /\ args \in UploadArgSets
  /\ argv = args
  /\ environ = { }
  /\ fs = { ".", ArchiveName(system, args) }
  /\ fs0 = fs
  /\ llvm_url = GetLlvmBaseUrl(args)
  /\ bundle_version = GetBundleVersion(args)
  /\ releases \in Listings(system, args)
  /\ upload_url = ""
  /\ RetriesIdle /\ CheckIdle /\ BundleIdle

NextUpload ==
  \/ UploadList
  \/ UploadRelease
  \/ UploadCreate
  \/ UploadAsset

SpecUpload == InitUpload /\ [][NextUpload]_vars

(***************************************************************************)
(* Properties of UploadLlvm (SpecUpload).                                  *)
(***************************************************************************)

(* the calls made so far, by name *)
CallNames == [ i \in 1..Len(trace) |-> trace[i][2] ]

(* the releases of the listing that carry the tag of the bundle *)
Tagged == { i \in 1..Len(releases) : releases[i].tag_name = GetBundleVersion(args) }

(* those of them that hold an asset named like the bundle *)
Holding ==
  { i \in Tagged :
      \E j \in 1..Len(releases[i].assets) :
        releases[i].assets[j] = ArchiveName(system, args) }

Repeat(x, n) == [ i \in 1..n |-> x ]

IsPrefix(p, q) == Len(p) <= Len(q) /\ SubSeq(q, 1, Len(p)) = p

(* C5 (as claimed): the calls of a completed UploadLlvm are list, then     *)
(* delete-asset if and only if a release with the bundle's tag holds an    *)
(* asset named like the bundle, then create-release if and only if no      *)
(* release has that tag, then upload.                                      *)
C5_CallSequence ==
  pc = "done" =>
    CallNames = << "list" >>
                  \o (IF Holding # { } THEN << "delete" >> ELSE << >>)
                  \o (IF Tagged = { } THEN << "create" >> ELSE << >>)
                  \o << "upload" >>

(* C5 (amended): the calls are list, then one delete-asset for each listed *)
(* release that carries the bundle's tag and holds an asset named like the *)
(* bundle (a single one when one release carries the tag), then            *)
(* create-release if and only if no release has that tag, then upload; a   *)
(* call that is answered with an unexpected status ends the sequence.      *)
C5_CallSequencePerRelease ==
  LET full == << "list" >>
                \o Repeat("delete", Cardinality(Holding))
                \o (IF Tagged = { } THEN << "create" >> ELSE << >>)
                \o << "upload" >>
  IN  /\ IsPrefix(CallNames, full)
      /\ pc = "done" => CallNames = full
      /\ (pc = "done" /\ Cardinality(Tagged) = 1 /\ Holding # { })
           => CallNames = << "list", "delete", "upload" >>

(* C5 witness: the upload completed against a listing in which one release *)
(* has the bundle's tag and an asset of the bundle's name.                 *)
C5_Witness ==
  /\ pc = "done"
  /\ Cardinality(Tagged) = 1
  /\ Holding # { }
  /\ CallNames = << "list", "delete", "upload" >>

(* C6: a call answered with another status than the one expected (200 for  *)
(* list, 204 for delete-asset, 201 for create-release and for upload) is   *)
(* the last call UploadLlvm makes and UploadLlvm exits; so an upload call  *)
(* is only ever made after calls that were all answered as expected.       *)
C6_UnexpectedStatusIsFatal ==
  LET expected == [ list |-> 200, delete |-> 204, create |-> 201, upload |-> 201 ]
      bad(i)   == trace[i][3] # expected[trace[i][2]]
  IN  /\ \A i \in 1..Len(trace) : bad(i) => (i = Len(trace) /\ pc = "SystemExit")
      /\ pc = "SystemExit" => (trace # << >> /\ bad(Len(trace)))
      /\ pc = "done" => Last(trace)[2] = "upload"

(* C6 witness: a delete-asset call was refused and UploadLlvm exited       *)
(* without uploading.                                                      *)
C6_Witness ==
  /\ pc = "SystemExit"
  /\ Last(trace)[2] = "delete"
  /\ Last(trace)[3] = 404
  /\ "upload" \notin { trace[i][2] : i \in 1..Len(trace) }

(***************************************************************************)
(* Version, lines 86-113: a version is the triple << major, minor, patch >>*)
(***************************************************************************)
Version(version) ==
  LET split_version == Split(version, ".")
  IN  << ParseInt(split_version[1]),
         IF Len(split_version) > 1 THEN ParseInt(split_version[2]) ELSE 0,
         IF Len(split_version) > 2 THEN ParseInt(split_version[3]) ELSE 0 >>

(* a comparison that stops at the major number *)
VersionLtMajorOnly(a, b) == a[1] < b[1]

(* __lt__, lines 103-107: Python's comparison of the two tuples *)
VersionLt(a, b) ==
  \/ a[1] < b[1]
  \/ a[1] = b[1] /\ a[2] < b[2]
  \/ a[1] = b[1] /\ a[2] = b[2] /\ a[3] < b[3]

(* __eq__, lines 96-100 *)
VersionEq(a, b) == a[1] = b[1] /\ a[2] = b[2] /\ a[3] = b[3]

(* __gt__ as functools.total_ordering derives it from __lt__ and __eq__ *)
VersionGt(a, b) == ~VersionLt(a, b) /\ ~VersionEq(a, b)

(* __repr__, lines 110-113 *)
VersionRepr(v) == ToString(v[1]) \o "." \o ToString(v[2]) \o "." \o ToString(v[3])

(* max( values ): the first of the greatest elements *)
RECURSIVE MaxFrom(_, _)
MaxFrom(best, values) ==
  IF values = << >> THEN best
  ELSE MaxFrom(IF VersionGt(Head(values), best) THEN Head(values) ELSE best,
               Tail(values))

MaxVersion(values) == MaxFrom(Head(values), Tail(values))

(***************************************************************************)
(* CheckDependencies and CheckLlvm, lines 262-294.                         *)
(***************************************************************************)
IsHex(c) == IsDigit(c) \/ c \in { "a", "b", "c", "d", "e", "f" }

(* how many hexadecimal digits s starts with: [0-9a-f]+ *)
RECURSIVE LeadingHex(_)
LeadingHex(s) ==
  IF Len(s) > 0 /\ IsHex(Char(s, 1)) THEN 1 + LeadingHex(SubSeq(s, 2, Len(s))) ELSE 0

(* how many decimal digits s starts with: \d+ *)
RECURSIVE LeadingDigits(_)
LeadingDigits(s) ==
  IF Len(s) > 0 /\ IsDigit(Char(s, 1)) THEN 1 + LeadingDigits(SubSeq(s, 2, Len(s))) ELSE 0

From(s, i) == SubSeq(s, i, Len(s))

(* OBJDUMP_NEEDED_REGEX, lines 37-38: << dependency >> on a match, else << >> *)
NeededMatch(line) ==
  LET prefix == "  NEEDED               "
  IN  IF StartsWith(line, prefix) THEN << From(line, Len(prefix) + 1) >> ELSE << >>

(* OBJDUMP_VERSION_REGEX, lines 39-40: << library, version >> on a match,  *)
(* else << >>; the library runs up to the last underscore                  *)
VersionMatch(line) ==
  IF ~StartsWith(line, "    0x") THEN << >>
  ELSE LET a == From(line, 7)
           h == LeadingHex(a)
           b == From(a, h + 1)
       IN  IF h = 0 \/ ~StartsWith(b, " 0x00 ") THEN << >>
           ELSE LET c == From(b, 7)
                    d == LeadingDigits(c)
                    e == From(c, d + 1)
                IN  IF d = 0 \/ ~StartsWith(e, " ") THEN << >>
                    ELSE LET rest == From(e, 2)
                             us   == Positions(rest, "_")
                         IN  IF us = { } THEN << >>
                             ELSE << SubSeq(rest, 1, SetMax(us) - 1),
                                     From(rest, SetMax(us) + 1) >>

(* versions[ library ].append( version ) on the defaultdict( list ) *)
AppendVersion(vs, library, version) ==
  IF \E i \in 1..Len(vs) : vs[i].library = library
    THEN [ i \in 1..Len(vs) |->
             IF vs[i].library = library
               THEN [ vs[i] EXCEPT !.values = Append(@, version) ]
               ELSE vs[i] ]
    ELSE Append(vs, [ library |-> library, values |-> << version >> ])

(* the loop of lines 268-277 over the lines of objdump's output *)
RECURSIVE ScanVersions(_, _)
ScanVersions(lines, vs) ==
  IF lines = << >> THEN vs
  ELSE LET m == VersionMatch(Head(lines))
       IN  ScanVersions(Tail(lines),
                        IF m = << >> THEN vs ELSE AppendVersion(vs, m[1], Version(m[2])))

RECURSIVE ScanNeeded(_)
ScanNeeded(lines) ==
  IF lines = << >> THEN << >>
  ELSE NeededMatch(Head(lines)) \o ScanNeeded(Tail(lines))

Binaries == << "lib/libclang.so", "bin/clangd" >>

(* lines objdump -p may print *)
ObjdumpLines ==
  { "  NEEDED               libgcc_s.so.1",
    "    0x0d696917 0x00 05 GLIBC_2.17",
    "    0x0d696914 0x00 04 GLIBC_2.4",
    "    0x0b792650 0x00 03 GCC_10.0.0",
    "    0x0b792651 0x00 02 GCC_9.10.0",
    "    0x0b792652 0x00 06 GCC_10" }

Outputs == UNION { [1..k -> ObjdumpLines] : k \in 0..MaxLines }

(* CheckDependencies, lines 262-281, on the next binary *)
CheckDependencies ==
  /\ pc = "CheckLlvm"
  /\ idx < Len(Binaries)
  /\ \E lines \in Outputs :
       /\ output' = Append(output, lines)
       /\ versions' = ScanVersions(lines, versions)
       /\ dependencies' = Append(dependencies, ScanNeeded(lines))
  /\ trace' = Append(trace, << "objdump", "inspect", Binaries[idx + 1] >>)
  /\ idx' = idx + 1
  /\ UNCHANGED << pc, report, mainVars, retriesVars, uploadVars, bundleVars >>

(* lines 292-294 *)
ReportVersions ==
  /\ pc = "CheckLlvm"
  /\ idx = Len(Binaries)
  /\ report' = [ i \in 1..Len(versions) |->
                   versions[i].library \o " " \o VersionRepr(MaxVersion(versions[i].values)) ]
  /\ pc' = "done"
  /\ UNCHANGED << trace, idx, output, versions, dependencies,
                  mainVars, retriesVars, uploadVars, bundleVars >>

InitCheck ==
  /\ pc = "CheckLlvm"
  /\ trace = << >>
  /\ idx = 0
  /\ output = << >> /\ versions = << >> /\ dependencies = << >> /\ report = << >>
  /\ MainIdle /\ RetriesIdle /\ UploadIdle /\ BundleIdle

NextCheck ==
  \/ CheckDependencies
  \/ ReportVersions

SpecCheck == InitCheck /\ [][NextCheck]_vars

(***************************************************************************)
(* Properties of CheckLlvm (SpecCheck).                                    *)
(***************************************************************************)

(* what each line of ObjdumpLines says, read by hand: the library and the  *)
(* version it requires, << >> for a line that requires none                *)
Requirement(line) ==
  CASE line = "    0x0d696917 0x00 05 GLIBC_2.17" -> << "GLIBC", 2, 17, 0 >>
    [] line = "    0x0d696914 0x00 04 GLIBC_2.4"  -> << "GLIBC", 2, 4, 0 >>
    [] line = "    0x0b792650 0x00 03 GCC_10.0.0" -> << "GCC", 10, 0, 0 >>
    [] line = "    0x0b792651 0x00 02 GCC_9.10.0" -> << "GCC", 9, 10, 0 >>
    [] line = "    0x0b792652 0x00 06 GCC_10"     -> << "GCC", 10, 0, 0 >>
    [] OTHER -> << >>

Requirements ==
  { Requirement(output[i][j]) :
      << i, j >> \in { p \in (1..Len(output)) \X (1..(MaxLines + 1)) :
                         p[2] <= Len(output[p[1]]) } } \ { << >> }

(* r is at least every requirement on its library, as numbers *)
Greatest(r) ==
  \A q \in Requirements :
    q[1] = r[1] =>
      \/ q[2] < r[2]
      \/ q[2] = r[2] /\ q[3] < r[3]
      \/ q[2] = r[2] /\ q[3] = r[3] /\ q[4] <= r[4]

(* C9: the report of CheckLlvm has exactly one line for each library that  *)
(* a versioned-symbol line of either binary names, and none for any other  *)
(* (a library that only a NEEDED line names included); the line gives the  *)
(* greatest version required of that library over both binaries, versions  *)
(* compared as triples of numbers with missing components zero.            *)
C9_MaximumVersionPerLibrary ==
  pc = "done" =>
    /\ Len(report) = Cardinality({ r[1] : r \in Requirements })
    /\ \A i \in 1..Len(report) :
         \E r \in Requirements :
           /\ Greatest(r)
           /\ report[i] = r[1] \o " " \o ToString(r[2]) \o "." \o ToString(r[3])
                            \o "." \o ToString(r[4])
    /\ \A i, j \in 1..Len(report) : report[i] = report[j] => i = j

(* C9 witness: GLIBC_2.4 then GLIBC_2.17 in libclang.so, GCC_9.10.0 then   *)
(* GCC_10 in clangd; the report is GLIBC 2.17.0 and GCC 10.0.0.            *)
C9_Witness ==
  /\ pc = "done"
  /\ output = << << "    0x0d696914 0x00 04 GLIBC_2.4",
                    "    0x0d696917 0x00 05 GLIBC_2.17" >>,
                 << "    0x0b792651 0x00 02 GCC_9.10.0",
                    "    0x0b792652 0x00 06 GCC_10" >> >>
  /\ report = << "GLIBC 2.17.0", "GCC 10.0.0" >>

(***************************************************************************)
(* BundleLlvm( bundle_name, archive_name, install_dir, version ),          *)
(* lines 297-312.  tree lists the files of install_dir, relative to it, in *)
(* the order os.walk yields them; the mode of a shared library is what     *)
(* os.stat answers when the file is reached; no other file is examined.    *)
(***************************************************************************)
RECURSIVE BitAnd(_, _)
BitAnd(a, b) ==
  IF a = 0 \/ b = 0 THEN 0
  ELSE (a % 2) * (b % 2) + 2 * BitAnd(a \div 2, b \div 2)

RECURSIVE BitOr(_, _)
BitOr(a, b) ==
  IF a = 0 THEN b
  ELSE IF b = 0 THEN a
  ELSE (IF a % 2 = 1 \/ b % 2 = 1 THEN 1 ELSE 0) + 2 * BitOr(a \div 2, b \div 2)

RECURSIVE ShiftRight(_, _)
ShiftRight(a, n) == IF n = 0 THEN a ELSE ShiftRight(a \div 2, n - 1)

(* 0o444, line 308 *)
ReadBits == 292

(* a shift by one: the read bits land on the write bits *)
AddExecutableShiftOne(mode) == BitOr(mode, ShiftRight(BitAnd(mode, ReadBits), 1))

(* line 308: mode |= ( mode & 0o444 ) >> 2 *)
AddExecutable(mode) == BitOr(mode, ShiftRight(BitAnd(mode, ReadBits), 2))

(* the tail (.\d+)* of SHARED_LIBRARY_REGEX: groups of one character and   *)
(* one or more digits, up to the end                                       *)
RECURSIVE VersionTail(_)
VersionTail(s) ==
  \/ s = ""
  \/ \E n \in 1..(Len(s) - 1) :
       /\ LeadingDigits(From(s, 2)) >= n
       /\ VersionTail(From(s, n + 2))

(* SHARED_LIBRARY_REGEX.match( filename ), line 35 *)
IsSharedLibrary(filename) ==
  \E i \in 1..(Len(filename) - 2) :
    SubSeq(filename, i, i + 2) = ".so" /\ VersionTail(From(filename, i + 3))

(* the file name of a path *)
Basename(path) ==
  IF Positions(path, "/") = { } THEN path ELSE From(path, SetMax(Positions(path, "/")) + 1)

Join(a, b) == a \o "/" \o b

(* os.path.relpath( path, start ) for a path below start *)
RelPath(path, start) == From(path, Len(start) + 2)

InstallDir == "llvm_install"

InstalledFiles == { "lib/libclang.so", "lib/libclang.so.17.0.1", "bin/clangd" }

Modes == 0..511

(* line 299: tarfile.open creates the archive *)
BundleOpen ==
  /\ pc = "BundleLlvm"
  /\ pc' = IF tree = << >> THEN "done" ELSE "walk"
  /\ idx' = 1
  /\ fs' = fs \cup { ArchiveName(system, args) }
  /\ trace' = Append(trace, << "tar", "bundle", ArchiveName(system, args) >>)
  /\ UNCHANGED << system, args, argv, environ, fs0, llvm_url, bundle_version,
                  retriesVars, uploadVars, checkVars, bundleVars >>

(* lines 303-312, one file of the walk *)
BundleFile ==
  /\ pc = "walk"
  /\ LET filepath    == Join(InstallDir, tree[idx])
         filename    == Basename(filepath)
         matched     == IsSharedLibrary(filename)
         bundle_name == BUNDLE_NAME(bundle_version,
                                    ENV_DATA[system][args.target_architecture].archive)
         arcname     == Join(bundle_name, RelPath(filepath, InstallDir))
     IN  /\ tar_file' = Append(tar_file, arcname)
         /\ IF matched
              THEN \E mode \in Modes :
                     chmod' = [ path |-> filepath, before |-> mode,
                                after |-> AddExecutable(mode) ]
              ELSE UNCHANGED chmod
  /\ idx' = idx + 1
  /\ pc' = IF idx = Len(tree) THEN "done" ELSE "walk"
  /\ UNCHANGED << trace, tree, mainVars, retriesVars, uploadVars, checkVars >>

InitBundle ==
  /\ pc = "BundleLlvm"
  /\ trace = << >>
  /\ idx = 0
  /\ system = "Linux"
  /\ args = [ NoArgs EXCEPT !.version = "17.0.1" ]
  /\ argv = args
  /\ environ = { }
  /\ fs = { ".", InstallDir }
  /\ fs0 = fs
  /\ llvm_url = GetLlvmBaseUrl(args)
  /\ bundle_version = GetBundleVersion(args)
  /\ tree \in Distinct(InstalledFiles, MaxFiles)
  /\ tar_file = << >>
  /\ chmod = << >>
  /\ RetriesIdle /\ UploadIdle /\ CheckIdle

NextBundle ==
  \/ BundleOpen
  \/ BundleFile

SpecBundle == InitBundle /\ [][NextBundle]_vars

(***************************************************************************)
(* Properties of BundleLlvm (SpecBundle).                                  *)
(***************************************************************************)

(* bit k of the mode m, bit 0 being execute-for-others *)
Bit(m, k) == (m \div (2 ^ k)) % 2

(* the files of InstalledFiles that are shared libraries, read by hand *)
SharedLibraries ==
  { Join(InstallDir, "lib/libclang.so"), Join(InstallDir, "lib/libclang.so.17.0.1") }

(* the files the walk has gone through *)
Walked ==
  { Join(InstallDir, tree[i]) :
      i \in 1..(IF pc = "done" THEN Len(tree) ELSE IF pc = "walk" THEN idx - 1 ELSE 0) }

(* C10: for a file named like a shared library and any mode m of 9 bits,   *)
(* the mode set is m with, in each class (others, group, user), the        *)
(* execute bit set if the class has the read bit or had the execute bit,   *)
(* and with every read and write bit as in m; the mode of a file not so    *)
(* named is never set; and when the walk is over every file of the tree is *)
(* in the archive exactly once, under the directory bundle_name.           *)
C10_ExecutableWhereReadable ==
  /\ chmod # << >> =>
       /\ chmod.path \in SharedLibraries
       /\ chmod.after < 512
       /\ \A c \in 0..2 :
            /\ Bit(chmod.after, 3 * c) =
                 (IF Bit(chmod.before, 3 * c + 2) = 1 THEN 1 ELSE Bit(chmod.before, 3 * c))
            /\ Bit(chmod.after, 3 * c + 1) = Bit(chmod.before, 3 * c + 1)
            /\ Bit(chmod.after, 3 * c + 2) = Bit(chmod.before, 3 * c + 2)
  /\ chmod = << >> => Walked \cap SharedLibraries = { }
  /\ Len(tar_file) = (IF pc = "done" THEN Len(tree) ELSE IF pc = "walk" THEN idx - 1 ELSE 0)
  /\ \A i \in 1..Len(tar_file) :
       tar_file[i] = "clang+llvm-17.0.1-x86_64-unknown-linux-gnu/" \o tree[i]

(* C10 witness: libclang.so.17.0.1 was found with mode 0o644 (420) and     *)
(* left with mode 0o755 (493), and the walk is over with two files in the  *)
(* archive.                                                                *)
C10_Witness ==
  /\ pc = "done"
  /\ chmod = [ path |-> "llvm_install/lib/libclang.so.17.0.1", before |-> 420, after |-> 493 ]
  /\ Len(tar_file) = 2

====
